---- MODULE Spec2Model ----
(***************************************************************************)
(* Model of .github/scripts/manage-fleet-charts.py: the retention policy   *)
(* get_versions_to_keep, and the two commands built on it, cleanup and     *)
(* sync, acting on the persisted index.yaml.                               *)
(*                                                                         *)
(* Time is counted in whole days.  A version string is a TLA+ string; its  *)
(* characters, which the regular expressions of the script read, are given *)
(* by Chars.                                                               *)
(***************************************************************************)
EXTENDS Integers, Sequences, FiniteSets, TLC

VARIABLES
    \* ---- evaluation of the retention policy on one catalog (SpecPolicy)
    all_versions,   \* the argument of get_versions_to_keep: version -> day
    now,            \* the clock when the script is loaded
    keep,           \* result of get_versions_to_keep(all_versions)
    again,          \* result of a second evaluation on the same argument
    rekeep,         \* result on all_versions restricted to keep
    evaluated,      \* which of keep, again, rekeep have been computed
    \* ---- runs of the commands (Spec)
    index,          \* index.yaml on disk: [complete, entries]
    releases,       \* what fetch_releases returns: version -> day published
    pc,             \* position of the running command
    pre,            \* entries of index.yaml when the command started
    data,           \* cleanup: the entries to dump
    removed,        \* cleanup: removed_versions
    missing,        \* sync: the list of versions to download
    pos,            \* sync: position in missing (1-based) of the current version
    nchart,         \* sync: number of charts of the current version downloaded
    added,          \* sync: counter of line 203
    failed,         \* sync: counter of line 203
    okVersions,     \* sync: versions whose downloads all succeeded
    badVersions,    \* sync: versions one of whose downloads raised
    charts_dir,     \* sync: packages in the temporary directory
    handed,         \* sync: packages in charts_dir when helm was invoked
    synced_file,    \* content of synced_versions.txt
    removed_file,   \* content of removed_versions.txt
    wrote,          \* the files the running command has written
    runs            \* number of commands started

policyVars == <<all_versions, now, keep, again, rekeep, evaluated>>

runVars == <<index, releases, pc, pre, data, removed, missing, pos, nchart,
             added, failed, okVersions, badVersions, charts_dir, handed,
             synced_file, removed_file, wrote, runs>>

vars == <<all_versions, now, keep, again, rekeep, evaluated,
          index, releases, pc, pre, data, removed, missing, pos, nchart,
          added, failed, okVersions, badVersions, charts_dir, handed,
          synced_file, removed_file, wrote, runs>>

----------------------------------------------------------------------------
(* Program constants *)

DEV_VERSION_MAX_AGE_DAYS == 14

CUTOFF_WEEKS == 2

SYNTHETIC_AGE_DAYS == 365

CHARTS == <<"fleet", "fleet-crd", "fleet-agent">>

INDEX_CHART == "fleet"

(* Bounds of the model *)

MaxCatalog == 3

----------------------------------------------------------------------------
(* Version strings and the string functions of the script *)

\* the version strings of the catalogs of SpecPolicy
Versions ==
    {"1.2.3", "1.2.3-rc1", "1.2.3-rc2", "1.3.0-beta1", "x-rc", "x-alpha"}

\* the characters of a version string
Chars(v) ==
    CASE v = "1.2.3"       -> <<"1", ".", "2", ".", "3">>
      [] v = "1.2.3+up"    -> <<"1", ".", "2", ".", "3", "+", "u", "p">>
      [] v = "1.2.3-rc1"   -> <<"1", ".", "2", ".", "3", "-", "r", "c", "1">>
      [] v = "1.2.3-rc2"   -> <<"1", ".", "2", ".", "3", "-", "r", "c", "2">>
      [] v = "1.3.0-beta1" -> <<"1", ".", "3", ".", "0", "-", "b", "e", "t", "a", "1">>
      [] v = "x-rc"        -> <<"x", "-", "r", "c">>
      [] v = "x-alpha"     -> <<"x", "-", "a", "l", "p", "h", "a">>

Digits == {"0", "1", "2", "3", "4", "5", "6", "7", "8", "9"}

\* the alternatives of DEV_VERSION_PATTERN = (rc|beta|alpha)
DEV_VERSION_PATTERN ==
    { <<"r", "c">>, <<"b", "e", "t", "a">>, <<"a", "l", "p", "h", "a">> }

\* re.search: the pattern occurs somewhere in s
Search(s) ==
    \E p \in DEV_VERSION_PATTERN :
        \E i \in 1..Len(s) :
            /\ i + Len(p) - 1 <= Len(s)
            /\ SubSeq(s, i, i + Len(p) - 1) = p

\* s.split('-')[0]: the part before the first '-'
SplitDash0(s) ==
    IF \E i \in 1..Len(s) : s[i] = "-"
    THEN LET i == CHOOSE i \in 1..Len(s) :
                    /\ s[i] = "-"
                    /\ \A j \in 1..(i - 1) : s[j] # "-"
         IN SubSeq(s, 1, i - 1)
    ELSE s

\* the end of the longest run of digits of s that starts at i (i - 1 if none)
DigitsEnd(s, i) ==
    LET ends == { e \in (i - 1)..Len(s) : \A j \in i..e : s[j] \in Digits }
    IN CHOOSE e \in ends : \A f \in ends : f <= e

\* re.match(r'^(\d+\.\d+\.\d+)', s): the end of the match, 0 if there is none
MatchBase(s) ==
    LET e1 == DigitsEnd(s, 1)
        e2 == DigitsEnd(s, e1 + 2)
        e3 == DigitsEnd(s, e2 + 2)
    IN IF /\ e1 >= 1
          /\ e1 + 1 <= Len(s) /\ s[e1 + 1] = "."
          /\ e2 >= e1 + 2
          /\ e2 + 1 <= Len(s) /\ s[e2 + 1] = "."
          /\ e3 >= e2 + 2
       THEN e3
       ELSE 0

extract_base_version(s) ==
    IF MatchBase(s) > 0 THEN SubSeq(s, 1, MatchBase(s)) ELSE s

\* the base get_versions_to_keep gives a version (lines 123 and 133)
BaseOf(v) == extract_base_version(SplitDash0(Chars(v)))

\* DEV_VERSION_PATTERN.search(v) of lines 119-120
IsDevString(v) == Search(Chars(v))

CUTOFF_DATE == now - 7 * CUTOFF_WEEKS

----------------------------------------------------------------------------
(* The retention policy *)

\* mutant: the age limit is applied to every version
stable_versions_aged(all) ==
    { v \in DOMAIN all : ~IsDevString(v) /\ all[v] >= now - 7 * CUTOFF_WEEKS }

stable_versions(all) == { v \in DOMAIN all : ~IsDevString(v) }

dev_versions(all) == { v \in DOMAIN all : IsDevString(v) }

stable_bases(all) == { BaseOf(v) : v \in stable_versions(all) }

\* mutant: reverse=True left out, oldest first
dev_sorted_ascending(all) ==
    LET devs == { v \in DOMAIN all : IsDevString(v) }
        n == Cardinality(devs)
    IN { o \in [1..n -> devs] :
            /\ \A i, j \in 1..n : i # j => o[i] # o[j]
            /\ \A i, j \in 1..n : i < j => all[o[i]] <= all[o[j]] }

\* sorted(dev_versions, key=date, reverse=True): sorted is stable and the
\* iteration order of a set of strings is not fixed, so versions of equal date
\* may come out in any order.
dev_sorted(all) ==
    LET devs == dev_versions(all)
        n == Cardinality(devs)
    IN { o \in [1..n -> devs] :
            /\ \A i, j \in 1..n : i # j => o[i] # o[j]
            /\ \A i, j \in 1..n : i < j => all[o[i]] >= all[o[j]] }

is_old(published) == published < CUTOFF_DATE

\* mutant: the test for a stable release of the base is left out
WalkStepNoStable(all, version, acc) ==
    LET base == BaseOf(version)
    IN IF ~is_old(all[version]) \/ base \notin acc.seen
       THEN [kept |-> acc.kept \cup {version}, seen |-> acc.seen \cup {base}]
       ELSE acc

\* mutant: the elif branch is left out, old dev versions are never kept
WalkStepRecentOnly(all, version, acc) ==
    IF ~is_old(all[version])
    THEN [kept |-> acc.kept \cup {version}, seen |-> acc.seen \cup {BaseOf(version)}]
    ELSE acc

\* one iteration of the loop of lines 131-143 on the pair [kept, seen]
WalkStep(all, version, acc) ==
    LET base == BaseOf(version)
    IN IF ~is_old(all[version])
       THEN [kept |-> acc.kept \cup {version}, seen |-> acc.seen \cup {base}]
       ELSE IF base \notin stable_bases(all) /\ base \notin acc.seen
            THEN [kept |-> acc.kept \cup {version}, seen |-> acc.seen \cup {base}]
            ELSE acc

RECURSIVE Walk(_, _, _, _)
Walk(all, order, i, acc) ==
    IF i > Len(order) THEN acc
    ELSE Walk(all, order, i + 1, WalkStep(all, order[i], acc))

kept_dev(all, order) == Walk(all, order, 1, [kept |-> {}, seen |-> {}]).kept

\* get_versions_to_keep(all_versions), order being the outcome of the sort
get_versions_to_keep(all, order) == stable_versions(all) \cup kept_dev(all, order)

\* every result get_versions_to_keep(all) can return
KeepSets(all) == { get_versions_to_keep(all, o) : o \in dev_sorted(all) }

\* mutant: "not in" for "in"
RestrictInverted(all, S) == [v \in (DOMAIN all) \ S |-> all[v]]

\* line 251: the entries whose version is in versions_to_keep
Restrict(all, S) == [v \in (DOMAIN all) \cap S |-> all[v]]

----------------------------------------------------------------------------
(* SpecPolicy: get_versions_to_keep applied to every bounded catalog *)

PublishDays == {0, 10, 30}

Nows == {30, 44, 45}

Catalogs ==
    UNION { [S -> PublishDays] :
              S \in { T \in SUBSET Versions : Cardinality(T) <= MaxCatalog } }

NoCatalog == [v \in {} |-> 0]

RunIdle ==
    /\ index = [complete |-> TRUE, entries |-> {}]
    /\ releases = NoCatalog
    /\ pc = "policy"
    /\ pre = {}
    /\ data = {}
    /\ removed = {}
    /\ missing = <<>>
    /\ pos = 0
    /\ nchart = 0
    /\ added = 0
    /\ failed = 0
    /\ okVersions = {}
    /\ badVersions = {}
    /\ charts_dir = {}
    /\ handed = {}
    /\ synced_file = <<>>
    /\ removed_file = {}
    /\ wrote = {}
    /\ runs = 0

InitPolicy ==
    /\ all_versions \in Catalogs
    /\ now \in Nows
    /\ keep = {}
    /\ again = {}
    /\ rekeep = {}
    /\ evaluated = {}
    /\ RunIdle

Evaluate ==
    /\ "keep" \notin evaluated
    /\ keep' \in KeepSets(all_versions)
    /\ evaluated' = evaluated \cup {"keep"}
    /\ UNCHANGED <<all_versions, now, again, rekeep>>
    /\ UNCHANGED runVars

EvaluateAgain ==
    /\ "keep" \in evaluated
    /\ "again" \notin evaluated
    /\ again' \in KeepSets(all_versions)
    /\ evaluated' = evaluated \cup {"again"}
    /\ UNCHANGED <<all_versions, now, keep, rekeep>>
    /\ UNCHANGED runVars

EvaluateKept ==
    /\ "keep" \in evaluated
    /\ "rekeep" \notin evaluated
    /\ rekeep' \in KeepSets(Restrict(all_versions, keep))
    /\ evaluated' = evaluated \cup {"rekeep"}
    /\ UNCHANGED <<all_versions, now, keep, again>>
    /\ UNCHANGED runVars

NextPolicy == Evaluate \/ EvaluateAgain \/ EvaluateKept

SpecPolicy == InitPolicy /\ [][NextPolicy]_vars

----------------------------------------------------------------------------
(* Spec: runs of the cleanup and sync commands on index.yaml *)

MaxIndex == 2

MaxFeed == 2

MaxRuns == 2

ChartSet == { CHARTS[i] : i \in 1..Len(CHARTS) }

\* the appVersion of the chart packaged as version v
AppVersionOf(v) == IF v = "1.2.3+up" THEN "1.2.3-rc1" ELSE v

IndexVersions == {"1.2.3", "1.2.3+up", "1.2.3-rc1", "1.2.3-rc2"}

\* a created field: its day, and whether it is written with a fraction of a second
CreatedFields == { [day |-> 0, fraction |-> FALSE], [day |-> 29, fraction |-> TRUE] }

FeedVersions == {"1.2.3", "1.2.3-rc1", "1.3.0-beta1"}

FeedDays == {10, 29}

\* the index entries of one release: one entry per chart
EntriesOf(v, created) ==
    { [chart |-> c, version |-> v, appVersion |-> AppVersionOf(v), created |-> created] :
        c \in ChartSet }

InitialIndexes ==
    { UNION { EntriesOf(v, f[v]) : v \in DOMAIN f } :
        f \in UNION { [S -> CreatedFields] :
                        S \in { T \in SUBSET IndexVersions :
                                    1 <= Cardinality(T) /\ Cardinality(T) <= MaxIndex } } }

Feeds ==
    UNION { [S -> FeedDays] :
              S \in { T \in SUBSET FeedVersions : Cardinality(T) <= MaxFeed } }

is_dev_version(e) == Search(Chars(e.version) \o Chars(e.appVersion))

\* both branches of parse_created_date give the day of the created field
parse_created_date(e) ==
    IF e.created.fraction THEN e.created.day ELSE e.created.day

\* line 245: version -> date of the entries of one chart
version_dates(entries, chart) ==
    LET es == { e \in entries : e.chart = chart }
    IN [v \in { e.version : e \in es } |->
            parse_created_date(CHOOSE e \in es : e.version = v)]

\* get_existing_versions: the versions of the chart "fleet"
get_existing_versions == { e.version : e \in { x \in index.entries : x.chart = INDEX_CHART } }

\* lines 179-183
combined ==
    [v \in (DOMAIN releases) \cup get_existing_versions |->
        IF v \in DOMAIN releases THEN releases[v]
        ELSE CUTOFF_DATE - SYNTHETIC_AGE_DAYS]

\* the lists that hold each element of S once
Perms(S) ==
    { o \in [1..Cardinality(S) -> S] :
        \A i, j \in 1..Cardinality(S) : i # j => o[i] # o[j] }

\* helm repo index charts_dir --merge index.yaml: an entry for every package
\* that loads, and the entries of index.yaml for any other chart version
HelmMerge(packages, entries) ==
    LET new == { [chart |-> p.chart, version |-> p.version,
                  appVersion |-> AppVersionOf(p.version),
                  created |-> [day |-> now, fraction |-> TRUE]] :
                    p \in { q \in packages : q.whole } }
    IN new \cup { e \in entries :
                    ~\E n \in new : n.chart = e.chart /\ n.version = e.version }

Stopped == pc \in {"idle", "cleanup_done", "sync_done", "failed"}

Init ==
    /\ all_versions = NoCatalog
    /\ now = 30
    /\ keep = {}
    /\ again = {}
    /\ rekeep = {}
    /\ evaluated = {}
    /\ \E es \in InitialIndexes : index = [complete |-> TRUE, entries |-> es]
    /\ releases \in Feeds
    /\ pc = "idle"
    /\ pre = {}
    /\ data = {}
    /\ removed = {}
    /\ missing = <<>>
    /\ pos = 0
    /\ nchart = 0
    /\ added = 0
    /\ failed = 0
    /\ okVersions = {}
    /\ badVersions = {}
    /\ charts_dir = {}
    /\ handed = {}
    /\ synced_file = <<>>
    /\ removed_file = {}
    /\ wrote = {}
    /\ runs = 0

\* time passes between two commands
Tick ==
    /\ Stopped
    /\ \E t \in Nows : t > now /\ now' = t
    /\ UNCHANGED <<all_versions, keep, again, rekeep, evaluated>>
    /\ UNCHANGED runVars

\* a command starts: a new process, whose variables are fresh
Begin ==
    /\ Stopped
    /\ index.complete
    /\ runs < MaxRuns
    /\ runs' = runs + 1
    /\ pre' = index.entries
    /\ wrote' = {}
    /\ handed' = {}
    /\ UNCHANGED policyVars

\* cleanup_old_versions, lines 236-263: load the index and filter every chart
CleanupFilter ==
    /\ Begin
    /\ \E k1 \in KeepSets(version_dates(index.entries, CHARTS[1])),
          k2 \in KeepSets(version_dates(index.entries, CHARTS[2])),
          k3 \in KeepSets(version_dates(index.entries, CHARTS[3])) :
            LET versions_to_keep == (CHARTS[1] :> k1) @@ (CHARTS[2] :> k2) @@ (CHARTS[3] :> k3)
                kept_versions ==
                    { e \in index.entries : e.version \in versions_to_keep[e.chart] }
            IN /\ data' = kept_versions
               /\ removed' = { e.version : e \in index.entries \ kept_versions }
    /\ pc' = "cleanup_filtered"
    /\ missing' = <<>>
    /\ pos' = 0
    /\ nchart' = 0
    /\ added' = 0
    /\ failed' = 0
    /\ okVersions' = {}
    /\ badVersions' = {}
    /\ charts_dir' = {}
    /\ UNCHANGED <<index, releases, synced_file, removed_file>>

\* lines 265-269: write removed_versions.txt, then open index.yaml for writing,
\* which empties it
CleanupOpen ==
    /\ pc = "cleanup_filtered"
    /\ IF removed # {}
       THEN /\ removed_file' = removed
            /\ wrote' = wrote \cup {"removed_versions.txt"}
       ELSE UNCHANGED <<removed_file, wrote>>
    /\ index' = [complete |-> FALSE, entries |-> {}]
    /\ pc' = "cleanup_dumping"
    /\ UNCHANGED policyVars
    /\ UNCHANGED <<releases, pre, data, removed, missing, pos, nchart, added, failed,
                   okVersions, badVersions, charts_dir, handed, synced_file, runs>>

\* line 270: yaml.dump writes the whole document
CleanupDump ==
    /\ pc = "cleanup_dumping"
    /\ index' = [complete |-> TRUE, entries |-> data]
    /\ wrote' = wrote \cup {"index.yaml"}
    /\ pc' = "cleanup_done"
    /\ UNCHANGED policyVars
    /\ UNCHANGED <<releases, pre, data, removed, missing, pos, nchart, added, failed,
                   okVersions, badVersions, charts_dir, handed, synced_file,
                   removed_file, runs>>

\* line 270: yaml.dump raises, or the process is stopped, before the document
\* is written out
CleanupDumpFails ==
    /\ pc = "cleanup_dumping"
    /\ pc' = "failed"
    /\ UNCHANGED policyVars
    /\ UNCHANGED <<index, releases, pre, data, removed, missing, pos, nchart, added,
                   failed, okVersions, badVersions, charts_dir, handed, synced_file,
                   removed_file, wrote, runs>>

\* sync_releases, lines 175-203: nothing is missing (return of line 193), or
\* the list of missing versions is set up
SyncStart ==
    /\ Begin
    /\ \E versions_to_keep \in KeepSets(combined) :
          LET M == { v \in versions_to_keep :
                        v \in DOMAIN releases /\ v \notin get_existing_versions }
          IN IF M = {}
             THEN /\ missing' = <<>>
                  /\ pos' = 0
                  /\ pc' = "sync_done"
             ELSE /\ missing' \in Perms(M)
                  /\ pos' = 1
                  /\ pc' = "sync_downloading"
    /\ nchart' = 0
    /\ added' = 0
    /\ failed' = 0
    /\ okVersions' = {}
    /\ badVersions' = {}
    /\ charts_dir' = {}
    /\ data' = {}
    /\ removed' = {}
    /\ UNCHANGED <<index, releases, synced_file, removed_file>>

\* fetch_releases raises (line 80): the run ends before anything is written
SyncFetchFails ==
    /\ Begin
    /\ pc' = "failed"
    /\ missing' = <<>>
    /\ pos' = 0
    /\ nchart' = 0
    /\ added' = 0
    /\ failed' = 0
    /\ okVersions' = {}
    /\ badVersions' = {}
    /\ charts_dir' = {}
    /\ data' = {}
    /\ removed' = {}
    /\ UNCHANGED <<index, releases, synced_file, removed_file>>

\* download_chart returns (line 210); after the last chart, line 211
DownloadChart ==
    /\ pc = "sync_downloading"
    /\ pos <= Len(missing)
    /\ charts_dir' = charts_dir \cup
          { [chart |-> CHARTS[nchart + 1], version |-> missing[pos], whole |-> TRUE] }
    /\ IF nchart + 1 = Len(CHARTS)
       THEN /\ added' = added + 1
            /\ okVersions' = okVersions \cup {missing[pos]}
            /\ pos' = pos + 1
            /\ nchart' = 0
       ELSE /\ nchart' = nchart + 1
            /\ UNCHANGED <<added, okVersions, pos>>
    /\ UNCHANGED policyVars
    /\ UNCHANGED <<index, releases, pc, pre, data, removed, missing, failed,
                   badVersions, handed, synced_file, removed_file, wrote, runs>>

\* download_chart raises (lines 212-214), before its file is created or while
\* it is written
DownloadFails ==
    /\ pc = "sync_downloading"
    /\ pos <= Len(missing)
    /\ \E partial \in BOOLEAN :
          charts_dir' =
              IF partial
              THEN charts_dir \cup
                     { [chart |-> CHARTS[nchart + 1], version |-> missing[pos], whole |-> FALSE] }
              ELSE charts_dir
    /\ failed' = failed + 1
    /\ badVersions' = badVersions \cup {missing[pos]}
    /\ pos' = pos + 1
    /\ nchart' = 0
    /\ UNCHANGED policyVars
    /\ UNCHANGED <<index, releases, pc, pre, data, removed, missing, added,
                   okVersions, handed, synced_file, removed_file, wrote, runs>>

\* lines 216-223 with added = 0: the temporary directory is removed
SyncNothingAdded ==
    /\ pc = "sync_downloading"
    /\ pos > Len(missing)
    /\ added = 0
    /\ charts_dir' = {}
    /\ pc' = "sync_done"
    /\ UNCHANGED policyVars
    /\ UNCHANGED <<index, releases, pre, data, removed, missing, pos, nchart, added,
                   failed, okVersions, badVersions, handed, synced_file, removed_file,
                   wrote, runs>>

\* lines 216-227 with added > 0: update_index, then synced_versions.txt
SyncUpdateIndex ==
    /\ pc = "sync_downloading"
    /\ pos > Len(missing)
    /\ added > 0
    /\ handed' = charts_dir
    /\ index' = [complete |-> TRUE, entries |-> HelmMerge(charts_dir, index.entries)]
    /\ charts_dir' = {}
    /\ synced_file' = SubSeq(missing, 1, added)
    /\ wrote' = wrote \cup {"index.yaml", "synced_versions.txt"}
    /\ pc' = "sync_done"
    /\ UNCHANGED policyVars
    /\ UNCHANGED <<releases, pre, data, removed, missing, pos, nchart, added, failed,
                   okVersions, badVersions, removed_file, runs>>

\* helm exits with an error (check=True raises, line 166): index.yaml is not
\* replaced, and the finally clause removes the temporary directory
SyncHelmFails ==
    /\ pc = "sync_downloading"
    /\ pos > Len(missing)
    /\ added > 0
    /\ handed' = charts_dir
    /\ charts_dir' = {}
    /\ pc' = "failed"
    /\ UNCHANGED policyVars
    /\ UNCHANGED <<index, releases, pre, data, removed, missing, pos, nchart, added,
                   failed, okVersions, badVersions, synced_file, removed_file,
                   wrote, runs>>

Next ==
    \/ Tick
    \/ CleanupFilter \/ CleanupOpen \/ CleanupDump \/ CleanupDumpFails
    \/ SyncStart \/ SyncFetchFails \/ DownloadChart \/ DownloadFails
    \/ SyncNothingAdded \/ SyncUpdateIndex \/ SyncHelmFails

Spec == Init /\ [][Next]_vars

----------------------------------------------------------------------------
(* Vocabulary of the properties of the retention policy *)

\* BaseVersion of a version: its three-component numeric prefix, or the whole
\* string if it has none
BaseVersion(v) == extract_base_version(Chars(v))

\* Dev: a version with an rc, beta or alpha marker; Stable: any other
Dev(v) == Search(Chars(v))

\* age of a catalog entry, in days
Age(v) == now - all_versions[v]

Old(v) == Age(v) > DEV_VERSION_MAX_AGE_DAYS

Catalog == DOMAIN all_versions

OldDevOf(B) == { d \in Catalog : Dev(d) /\ BaseVersion(d) = B /\ Old(d) }

RecentDevOf(B) == { d \in Catalog : Dev(d) /\ BaseVersion(d) = B /\ ~Old(d) }

HasStable(B) == \E s \in Catalog : ~Dev(s) /\ BaseVersion(s) = B

OldDevOfStableBaseDropped ==
    "keep" \in evaluated =>
        \A s, d \in Catalog :
            (~Dev(s) /\ Dev(d) /\ BaseVersion(s) = BaseVersion(d) /\ Old(d))
                => d \notin keep

\* an old Dev version of a base that has a Stable version was evaluated
OldDevOfStableBaseDroppedWitness ==
    /\ "keep" \in evaluated
    /\ \E s, d \in Catalog :
          /\ ~Dev(s) /\ Dev(d) /\ BaseVersion(s) = BaseVersion(d)
          /\ Age(d) = DEV_VERSION_MAX_AGE_DAYS + 1
          /\ d \notin keep /\ s \in keep

\* C3: for a BaseVersion B with no Stable entry the KeepSet holds at most one
\* old Dev entry of B; with several old Dev entries and no recent one, the one
\* kept is a most recently published old one; with a recent Dev entry of B, no
\* old Dev entry of B is kept.
AtMostOneOldDevPerBase ==
    "keep" \in evaluated =>
        \A v \in Catalog :
            LET B == BaseVersion(v)
                old == OldDevOf(B)
                recent == RecentDevOf(B)
            IN ~HasStable(B) =>
                /\ Cardinality(old \cap keep) <= 1
                /\ (Cardinality(old) >= 2 /\ recent = {}) =>
                      \E k \in old \cap keep : \A d \in old : all_versions[k] >= all_versions[d]
                /\ recent # {} => old \cap keep = {}

\* two old Dev versions of one base, published on different days, no Stable one
\* and no recent one: the older is dropped and the newer kept
AtMostOneOldDevPerBaseWitness ==
    /\ "keep" \in evaluated
    /\ \E k, d \in Catalog :
          /\ Dev(k) /\ Dev(d) /\ Old(k) /\ Old(d)
          /\ BaseVersion(k) = BaseVersion(d)
          /\ ~HasStable(BaseVersion(k)) /\ RecentDevOf(BaseVersion(k)) = {}
          /\ all_versions[k] > all_versions[d]
          /\ k \in keep /\ d \notin keep

\* C4: applying get_versions_to_keep to the catalog restricted to its own
\* KeepSet, at the same clock, returns that same KeepSet.
PolicyIdempotent ==
    "rekeep" \in evaluated => rekeep = keep

\* the first application dropped something and the second was evaluated
PolicyIdempotentWitness ==
    /\ "rekeep" \in evaluated
    /\ keep # {}
    /\ \E d \in Catalog : d \notin keep
    /\ \E d \in keep : Dev(d) /\ Old(d)

\* C5: two evaluations of get_versions_to_keep on the same catalog and clock
\* return the same KeepSet.
PolicyDeterministic ==
    {"keep", "again"} \subseteq evaluated => keep = again

----------------------------------------------------------------------------
(* Properties of the runs *)

\* age of an index entry, in days
EntryAge(e) == now - parse_created_date(e)

\* C6: after cleanup, an entry whose marker is in appVersion only has been
\* treated as Dev: if it is older than DEV_VERSION_MAX_AGE_DAYS and its chart
\* has a Stable entry of the same BaseVersion, it is no longer in the index.
AppVersionMarkerClassifiedDev ==
    pc = "cleanup_done" =>
        \A e \in pre :
            ( /\ is_dev_version(e)
              /\ ~Search(Chars(e.version))
              /\ EntryAge(e) > DEV_VERSION_MAX_AGE_DAYS
              /\ \E s \in pre :
                    /\ s.chart = e.chart
                    /\ ~is_dev_version(s)
                    /\ BaseVersion(s.version) = BaseVersion(e.version) )
            => e \notin index.entries

\* C7: when sync ends, no downloaded package of a version whose download failed
\* was in the directory handed to helm, no entry of such a version was added to the
\* index, and added + failed is the number of missing versions.
FailedVersionExcluded ==
    (pc \in {"sync_done", "failed"} /\ missing # <<>> /\ pos > Len(missing)) =>
        /\ \A v \in badVersions :
              /\ \A p \in handed : p.whole => p.version # v
              /\ \A e \in index.entries : e.version = v => e \in pre
        /\ added + failed = Len(missing)

\* C8: when sync ends, synced_versions.txt was written if and only if a version
\* was added, and then it lists exactly the versions whose packages were all
\* downloaded.
SyncedFileRecordsAdded ==
    pc = "sync_done" =>
        IF okVersions = {}
        THEN "synced_versions.txt" \notin wrote
        ELSE /\ "synced_versions.txt" \in wrote
             /\ { synced_file[i] : i \in 1..Len(synced_file) } = okVersions

\* C9: when a command fails, index.yaml holds its whole content of before the
\* run or the whole new content.
IndexNeverPartial ==
    pc = "failed" =>
        /\ index.complete
        /\ index.entries = pre \/ "index.yaml" \in wrote

====
